---- MODULE Spec2Model ----
(***************************************************************************)
(* Model of the Pix webhook worker (src/src/worker.js, version 0.0.14):    *)
(* POST /webhook authenticates a notification batch and folds its items    *)
(* into the D1 tables recebimentos and consultas; GET /consulta-recebimento*)
(* reads a ledger row and resets it.  Every awaited D1 statement is one    *)
(* atomic step; the synchronous code between two awaits belongs to the     *)
(* step that precedes it.  Requests run in slots 1..MaxReq and interleave  *)
(* at their awaits.                                                        *)
(***************************************************************************)
EXTENDS Integers, Sequences, FiniteSets, Bags, TLC

-----------------------------------------------------------------------------
(* Bounds of the model *)

\* requests over the whole run
MaxReq == 3
\* notification items over all batches of the run
MaxItems == 2

-----------------------------------------------------------------------------
(* Process-wide configuration (env) *)

EFI_IP == "34.193.116.226"
HMAC == "accc9f4a253879ed648fc053330b6bf0"
TEST_PASS == "ffe822014ca58eae6349f561a5f2876c"

-----------------------------------------------------------------------------
(* Input domains *)

Absent == "absent"

IPS == {EFI_IP, "203.0.113.9"}
TOKENS == {HMAC, "bad-token", Absent}
HIDES == {TEST_PASS, "bad-pass", Absent}
CREDS == [ip : IPS, hmac : TOKENS, hide : HIDES]
NoCreds == [ip |-> Absent, hmac |-> Absent, hide |-> Absent]

TXIDS == {"tx1", "tx2"}

Item(e, t, v, g) ==
    [eeid |-> e, txid |-> t, chave |-> "key", valor |-> v, horario |-> "T1", pagador |-> g]

ITEMS == { Item("E1", "tx1", "1.004", "ana"),
           [Item("E2", "tx1", "2.006", "ana") EXCEPT !.horario = "T2"],
           Item(Absent, "tx1", "1.004", "ana"),
           Item("E4", "tx1", Absent, "ana"),
           Item("E5", "tx1", "1.004", Absent),
           Item("E6", "tx1", "-1.004", "ana") }

\* amounts with a third decimal of 5, and one with none
TIE_ITEMS == { Item("E7", "tx1", "10.005", "ana"),
               Item("E8", "tx1", "5.00", "ana"),
               Item("E9", "tx1", "1.005", "ana") }

\* one item for each txid
PAIR_ITEMS == { Item("E1", "tx1", "1.004", "ana"),
                [Item("E10", "tx2", "2.006", "ana") EXCEPT !.horario = "T2"] }

\* two payments below the price of a unit
COIN_ITEMS == { Item("E11", "tx1", "0.30", "ana"),
                Item("E12", "tx1", "0.30", "ana") }

ALL_ITEMS == ITEMS \cup TIE_ITEMS \cup PAIR_ITEMS \cup COIN_ITEMS

RECURSIVE SeqsUpTo(_)
SeqsUpTo(n) ==
    IF n = 0 THEN { <<>> }
    ELSE LET S == SeqsUpTo(n - 1)
         IN  S \cup { Append(s, i) : s \in { x \in S : Len(x) = n - 1 }, i \in ITEMS }

\* request bodies: data.pix an array of items, no pix field at all, or a pix
\* field that holds one item instead of an array
BODIES == { [array |-> TRUE, pix |-> s] : s \in SeqsUpTo(MaxItems) }
              \cup { [array |-> FALSE, pix |-> <<>>] }
              \cup { [array |-> FALSE, pix |-> <<Item("E1", "tx1", "1.004", "ana")>>] }

\* values the column pulsos of a new consultas row may hold: no statement of
\* the worker assigns it, the table definition is not part of the repository
\* request bodies whose items are drawn from TIE_ITEMS
TIE_BODIES ==
    { [array |-> TRUE, pix |-> s] :
        s \in { x \in [1..1 -> TIE_ITEMS] \cup [1..2 -> TIE_ITEMS] : Len(x) <= MaxItems } }

\* request bodies whose items are drawn from PAIR_ITEMS
PAIR_BODIES ==
    { [array |-> TRUE, pix |-> s] :
        s \in { x \in [1..1 -> PAIR_ITEMS] \cup [1..2 -> PAIR_ITEMS] : Len(x) <= MaxItems } }

\* request bodies whose items are drawn from COIN_ITEMS
COIN_BODIES ==
    { [array |-> TRUE, pix |-> s] :
        s \in { x \in [1..1 -> COIN_ITEMS] \cup [1..2 -> COIN_ITEMS] : Len(x) <= MaxItems } }

PULSOS == {0, 2}

Procs == 1 .. MaxReq

-----------------------------------------------------------------------------
(* Pure helpers *)

RECURSIVE Sum(_, _)
Sum(f, S) ==
    IF S = {} THEN 0
    ELSE LET x == CHOOSE y \in S : TRUE IN f[x] + Sum(f, S \ {x})

\* JavaScript truthiness of a string-or-missing field
Truthy(x) == x # Absent /\ x # ""

\* Number(valor), in thousandths of the currency unit
NumberOf(v) ==
    CASE v = "1.004" -> 1004
      [] v = "2.006" -> 2006
      [] v = "-1.004" -> -1004
      [] v = "1.005" -> 1005
      [] v = "10.005" -> 10005
      [] v = "5.00" -> 5000
      [] v = "0.30" -> 300
      [] OTHER -> 0

\* Number(valor) * 100 as the IEEE 754 double it is, in millionths of a cent
\* (truncated): 2.006 * 100 is 200.59999999999997, 1.005 * 100 is
\* 100.49999999999999, 10.005 * 100 is 1000.5000000000001
TimesHundred(v) ==
    CASE v = "1.004" -> 100400000
      [] v = "2.006" -> 200599999
      [] v = "-1.004" -> -100400000
      [] v = "1.005" -> 100499999
      [] v = "10.005" -> 1000500000
      [] v = "5.00" -> 500000000
      [] v = "0.30" -> 30000000
      [] OTHER -> 0

\* Math.round(Number(valor) * 100): cents, half rounded towards +infinity
RoundedCents(v) == (TimesHundred(v) + 500000) \div 1000000

\* SQLite ROUND(x, 2) of a whole number of cents
SqlRound2(x) == x

-----------------------------------------------------------------------------
(* What a request body holds, recorded when request.json() returns *)

\* a notification with every required field and a positive amount
FullItem(i) ==
    /\ i.eeid # Absent /\ i.txid # Absent /\ i.pagador # Absent /\ i.chave # Absent
    /\ i.horario # Absent
    /\ i.valor \in {"1.004", "2.006"}

\* a notification whose only flaw is that its amount is missing
LacksAmountOnly(i) == i.valor = Absent /\ FullItem([i EXCEPT !.valor = "1.004"])

\* how many items of the sequence s are in the set S
Count(s, S) == Cardinality({ k \in DOMAIN s : s[k] \in S })
FullItems == { i \in ITEMS : FullItem(i) }
AmountlessItems == { i \in ITEMS : LacksAmountOnly(i) }

\* kind: no array field / every item full / one item lacks its amount and the
\* others are full / anything else; good: the number of full items
ShapeOf(b) ==
    [kind |-> IF ~b.array THEN "noarray"
              ELSE IF Count(b.pix, FullItems) = Len(b.pix) THEN "full"
              ELSE IF Count(b.pix, FullItems) = Len(b.pix) - 1
                      /\ Count(b.pix, AmountlessItems) = 1 THEN "amount"
              ELSE "other",
     good |-> IF b.array THEN Count(b.pix, FullItems) ELSE 0]

-----------------------------------------------------------------------------
(* State *)

VARIABLES
    consultas,      \* table consultas: sequence of rows, in insertion order
    recebimentos,   \* table recebimentos: bag of rows
    pc,             \* per slot: the statement the request is waiting on
    creds,          \* per slot: credentials of the request being authenticated
    rest,           \* per slot: items of data.pix not yet finished (head = current)
    txid,           \* per slot: the idmaq parameter of a consume request
    row,            \* per slot: row.pulsos as read by the consume's SELECT
    ret,            \* per slot: how the handler ended
    used,           \* notification items received so far
    shape,          \* history: per slot, what kind of body request.json() returned
    did,            \* history: per slot, the accruals the request committed
    applied,        \* history: per item, how often it was committed to consultas
    since,          \* history: the same, counted since the last reset of its txid
    obs,            \* history: what a consume saw at its SELECT and erased at its UPDATE
    r2,             \* bucket MY_R2 of v0.0.8-alpha: per txid, the object bucket-<txid>.json
    batch           \* history: per slot, data.pix as received (kept on demand)

vars == <<consultas, recebimentos, pc, creds, rest, txid, row, ret, used,
          shape, did, applied, since, obs, r2, batch>>

NoShape == [kind |-> "none", good |-> 0]
NoObs == [gen |-> 0, valor |-> 0, erased |-> 0, pending |-> {}]

\* no object under the key
NoBlob == [eeid |-> Absent, txid |-> Absent, valor |-> Absent]

Init ==
    /\ consultas = <<>>
    /\ recebimentos = EmptyBag
    /\ pc = [p \in Procs |-> "idle"]
    /\ creds = [p \in Procs |-> NoCreds]
    /\ rest = [p \in Procs |-> <<>>]
    /\ txid = [p \in Procs |-> Absent]
    /\ row = [p \in Procs |-> 0]
    /\ ret = [p \in Procs |-> "none"]
    /\ used = 0
    /\ shape = [p \in Procs |-> NoShape]
    /\ did = [p \in Procs |-> 0]
    /\ applied = [i \in ALL_ITEMS |-> 0]
    /\ since = [i \in ALL_ITEMS |-> 0]
    /\ obs = [p \in Procs |-> NoObs]
    /\ r2 = [t \in TXIDS |-> NoBlob]
    /\ batch = [p \in Procs |-> <<>>]

-----------------------------------------------------------------------------
(* The D1 statements *)

RowsOf(tbl, t) == { k \in DOMAIN tbl : tbl[k].txid = t }

\* .first() of a SELECT ... WHERE txid = ?: the oldest matching row
FirstRow(tbl, t) == tbl[CHOOSE k \in RowsOf(tbl, t) : \A j \in RowsOf(tbl, t) : k <= j]

\* INSERT INTO consultas (txid, valor) VALUES (?, ?)
InsertConsulta(tbl, t, v, pu) ==
    Append(tbl, [txid |-> t, valor |-> v, datahora |-> "default", pulsos |-> pu])

\* faulty variant: the UPDATE stores the new amount instead of adding it
UpdateConsultaOverwrite(tbl, t, v, h) ==
    [k \in DOMAIN tbl |->
        IF tbl[k].txid = t
        THEN [tbl[k] EXCEPT !.valor = SqlRound2(v), !.datahora = h]
        ELSE tbl[k]]

\* faulty variant: the UPDATE adds the amount and leaves datahora as it was
UpdateConsultaKeepsTime(tbl, t, v, h) ==
    [k \in DOMAIN tbl |->
        IF tbl[k].txid = t
        THEN [tbl[k] EXCEPT !.valor = SqlRound2(@ + v)]
        ELSE tbl[k]]

\* UPDATE consultas SET valor = ROUND(valor + ?, 2), datahora = ? WHERE txid = ?
UpdateConsulta(tbl, t, v, h) ==
    [k \in DOMAIN tbl |->
        IF tbl[k].txid = t
        THEN [tbl[k] EXCEPT !.valor = SqlRound2(@ + v), !.datahora = h]
        ELSE tbl[k]]

\* faulty variant: the reset statement is prepared but never run
ResetConsultaNotRun(tbl, t) == tbl

\* faulty variant: the reset removes the row
ResetConsultaDeletes(tbl, t) == SelectSeq(tbl, LAMBDA r : r.txid # t)

\* faulty variant: the reset has no WHERE clause
ResetConsultaEveryRow(tbl, t) ==
    [k \in DOMAIN tbl |-> [tbl[k] EXCEPT !.valor = 0]]

\* UPDATE consultas SET valor = 0 WHERE txid = ?
ResetConsulta(tbl, t) ==
    [k \in DOMAIN tbl |-> IF tbl[k].txid = t THEN [tbl[k] EXCEPT !.valor = 0] ELSE tbl[k]]

\* the row bound by INSERT INTO recebimentos (eeid, pagador, datahora, txid, chavepix, valor)
RecebRow(i) ==
    [eeid |-> i.eeid, pagador |-> i.pagador, datahora |-> i.horario,
     txid |-> i.txid, chavepix |-> i.chave, valor |-> i.valor]

-----------------------------------------------------------------------------
(* POST /webhook *)

\* faulty variant: the address check is missing
AuthenticateNoAddress(c) ==
    LET override == c.hide = TEST_PASS
        hmacParam == IF override THEN HMAC ELSE c.hmac
    IN  IF ~Truthy(hmacParam) \/ hmacParam # HMAC THEN "denied_hmac" ELSE "ok"

\* faulty variant: the token check is missing
AuthenticateNoToken(c) ==
    LET override == c.hide = TEST_PASS
        clientIp == IF override THEN EFI_IP ELSE c.ip
    IN  IF clientIp # EFI_IP THEN "denied_ip" ELSE "ok"

\* faulty variant: any value of the hidden parameter switches test mode on
AuthenticateAnyHide(c) ==
    LET override == c.hide # Absent
        clientIp == IF override THEN EFI_IP ELSE c.ip
        hmacParam == IF override THEN HMAC ELSE c.hmac
    IN  IF clientIp # EFI_IP THEN "denied_ip"
        ELSE IF ~Truthy(hmacParam) \/ hmacParam # HMAC THEN "denied_hmac"
        ELSE "ok"

\* faulty variant: the token is checked before the address
AuthenticateTokenFirst(c) ==
    LET override == c.hide = TEST_PASS
        clientIp == IF override THEN EFI_IP ELSE c.ip
        hmacParam == IF override THEN HMAC ELSE c.hmac
    IN  IF ~Truthy(hmacParam) \/ hmacParam # HMAC THEN "denied_hmac"
        ELSE IF clientIp # EFI_IP THEN "denied_ip"
        ELSE "ok"

\* the address and token checks, after the test-mode override
Authenticate(c) ==
    LET override == c.hide = TEST_PASS
        clientIp == IF override THEN EFI_IP ELSE c.ip
        hmacParam == IF override THEN HMAC ELSE c.hmac
    IN  IF clientIp # EFI_IP THEN "denied_ip"
        ELSE IF ~Truthy(hmacParam) \/ hmacParam # HMAC THEN "denied_hmac"
        ELSE "ok"

\* the two guards of processPixItem
WantsReceb(i) ==
    Truthy(i.eeid) /\ Truthy(i.txid) /\ Truthy(i.chave) /\ Truthy(i.valor) /\ Truthy(i.horario)
WantsConsulta(i) == Truthy(i.txid) /\ i.valor # Absent

\* gnExtras.pagador.nome is evaluated while binding the recebimentos INSERT
Throws(i) == WantsReceb(i) /\ i.pagador = Absent

\* faulty variant: the loop ends at the first item that neither guard accepts
DispatchStopsAtSkipped(items) ==
    IF items = <<>> THEN [pc |-> "done", rest |-> <<>>, ret |-> "ok"]
    ELSE LET i == Head(items)
         IN  IF Throws(i) THEN [pc |-> "done", rest |-> <<>>, ret |-> "threw"]
             ELSE IF WantsReceb(i) THEN [pc |-> "receb", rest |-> items, ret |-> "none"]
             ELSE IF WantsConsulta(i) THEN [pc |-> "select", rest |-> items, ret |-> "none"]
             ELSE [pc |-> "done", rest |-> <<>>, ret |-> "ok"]

\* the synchronous run of the for loop up to the next awaited statement
RECURSIVE Dispatch(_)
Dispatch(items) ==
    IF items = <<>> THEN [pc |-> "done", rest |-> <<>>, ret |-> "ok"]
    ELSE LET i == Head(items)
         IN  IF Throws(i) THEN [pc |-> "done", rest |-> <<>>, ret |-> "threw"]
             ELSE IF WantsReceb(i) THEN [pc |-> "receb", rest |-> items, ret |-> "none"]
             ELSE IF WantsConsulta(i) THEN [pc |-> "select", rest |-> items, ret |-> "none"]
             ELSE Dispatch(Tail(items))

\* what the specification asks of a request's credentials
TrustedCreds(c) ==
    \/ c.hide = TEST_PASS
    \/ c.ip = EFI_IP /\ c.hmac = HMAC

\* slots are taken in order; sequential runs admit a request only when none is in flight
CanStart(p, sequential) ==
    /\ pc[p] = "idle"
    /\ p > 1 => pc[p - 1] # "idle"
    /\ sequential => \A q \in Procs : pc[q] \in {"idle", "done"}

\* Credentials are compared in synchronous code on arrival; they stay in the
\* state only until the request has passed (or failed) authentication, and one
\* request's credentials are in the state at a time.
Arrive(p, sequential, C) ==
    /\ CanStart(p, sequential)
    /\ \A q \in Procs : creds[q] = NoCreds
    /\ \E c \in C :
        LET d == Authenticate(c)
        IN  /\ creds' = [creds EXCEPT ![p] = c]
            /\ IF d = "ok"
               THEN /\ pc' = [pc EXCEPT ![p] = "json"]
                    /\ ret' = ret
               ELSE /\ pc' = [pc EXCEPT ![p] = "denied"]
                    /\ ret' = [ret EXCEPT ![p] = d]
    /\ UNCHANGED <<consultas, recebimentos, rest, txid, row, used, shape, did, applied, since, obs,
                   r2, batch>>

\* a request with any address, token and hidden parameter
WebhookReceive(p, sequential) == Arrive(p, sequential, CREDS)

\* a request of the institution: its address and token, no hidden parameter
Production == [ip |-> EFI_IP, hmac |-> HMAC, hide |-> Absent]
WebhookReceiveProduction(p) == Arrive(p, TRUE, {Production})

Continue(p, items) ==
    LET d == Dispatch(items)
    IN  /\ pc' = [pc EXCEPT ![p] = d.pc]
        /\ rest' = [rest EXCEPT ![p] = d.rest]
        /\ ret' = [ret EXCEPT ![p] = d.ret]

\* faulty variant: the Array.isArray test is missing
PixItemsUnchecked(b) == b.pix

\* faulty variant: the loop runs over the array from its end
PixItemsReversed(b) ==
    IF b.array THEN [k \in 1..Len(b.pix) |-> b.pix[Len(b.pix) + 1 - k]] ELSE <<>>

\* the items the loop runs over: data.pix && Array.isArray(data.pix)
PixItems(b) == IF b.array THEN b.pix ELSE <<>>

ReceiveJson(p, B, keep) ==
    /\ pc[p] = "json"
    /\ \E b \in B :
        /\ used + Len(b.pix) <= MaxItems
        /\ used' = used + Len(b.pix)
        /\ shape' = [shape EXCEPT ![p] = ShapeOf(b)]
        /\ batch' = [batch EXCEPT ![p] = IF keep THEN b.pix ELSE <<>>]
        /\ Continue(p, PixItems(b))
    /\ creds' = [creds EXCEPT ![p] = IF TrustedCreds(@) THEN NoCreds ELSE @]
    /\ UNCHANGED <<consultas, recebimentos, txid, row, did, applied, since, obs, r2>>

WebhookJson(p) == ReceiveJson(p, BODIES, FALSE)

WebhookReceb(p) ==
    /\ pc[p] = "receb"
    /\ LET i == Head(rest[p])
       IN  /\ recebimentos' = recebimentos (+) SetToBag({RecebRow(i)})
           /\ IF WantsConsulta(i)
              THEN /\ pc' = [pc EXCEPT ![p] = "select"]
                   /\ UNCHANGED <<rest, ret>>
              ELSE Continue(p, Tail(rest[p]))
    /\ UNCHANGED <<consultas, creds, txid, row, used, shape, did, applied, since, obs, r2,
                   batch>>

WebhookSelect(p) ==
    /\ pc[p] = "select"
    /\ LET i == Head(rest[p])
       IN  pc' = [pc EXCEPT ![p] = IF RowsOf(consultas, i.txid) # {} THEN "update" ELSE "insert"]
    /\ UNCHANGED <<consultas, recebimentos, creds, rest, txid, row, ret, used, shape, did,
                   applied, since, obs, r2, batch>>

Committed(p, i) ==
    /\ did' = [did EXCEPT ![p] = @ + 1]
    /\ applied' = [applied EXCEPT ![i] = @ + 1]
    /\ since' = [since EXCEPT ![i] = @ + 1]
    /\ Continue(p, Tail(rest[p]))

WebhookInsert(p) ==
    /\ pc[p] = "insert"
    /\ LET i == Head(rest[p])
       IN  /\ \E pu \in PULSOS :
                consultas' = InsertConsulta(consultas, i.txid, RoundedCents(i.valor), pu)
           /\ Committed(p, i)
    /\ UNCHANGED <<recebimentos, creds, txid, row, used, shape, obs, r2, batch>>

WebhookUpdate(p) ==
    /\ pc[p] = "update"
    /\ LET i == Head(rest[p])
       IN  /\ consultas' = UpdateConsulta(consultas, i.txid, RoundedCents(i.valor), i.horario)
           /\ Committed(p, i)
    /\ UNCHANGED <<recebimentos, creds, txid, row, used, shape, obs, r2, batch>>

-----------------------------------------------------------------------------
(* GET /consulta-recebimento *)

AppliedTo(t) == Sum(applied, { i \in ITEMS : i.txid = t })

Balance(tbl, t) ==
    Sum([k \in DOMAIN tbl |-> tbl[k].valor], RowsOf(tbl, t))

\* the request arrives with its idmaq parameter and its SELECT runs
ConsumeSelect(p, sequential) ==
    /\ CanStart(p, sequential)
    /\ \E t \in TXIDS :
        /\ txid' = [txid EXCEPT ![p] = t]
        /\ IF RowsOf(consultas, t) = {}
           THEN /\ pc' = [pc EXCEPT ![p] = "done"]
                /\ ret' = [ret EXCEPT ![p] = "notfound"]
                /\ UNCHANGED <<row, obs>>
           ELSE /\ pc' = [pc EXCEPT ![p] = "creset"]
                /\ row' = [row EXCEPT ![p] = FirstRow(consultas, t).pulsos]
                /\ obs' = [obs EXCEPT ![p] =
                            [gen |-> AppliedTo(t),
                             valor |-> FirstRow(consultas, t).valor,
                             erased |-> 0,
                             pending |-> { q \in Procs \ {p} :
                                            pc[q] = "creset" /\ txid[q] = t }]]
                /\ ret' = ret
    /\ UNCHANGED <<consultas, recebimentos, creds, rest, used, shape, did, applied, since,
                   r2, batch>>

ConsumeReset(p) ==
    /\ pc[p] = "creset"
    /\ consultas' = ResetConsulta(consultas, txid[p])
    /\ since' = [i \in DOMAIN since |-> IF i.txid = txid[p] THEN 0 ELSE since[i]]
    /\ obs' = [obs EXCEPT ![p].erased = Balance(consultas, txid[p])]
    /\ ret' = [ret EXCEPT ![p] = "ok"]
    /\ pc' = [pc EXCEPT ![p] = "done"]
    /\ UNCHANGED <<recebimentos, creds, rest, txid, row, used, shape, did, applied, r2,
                   batch>>

-----------------------------------------------------------------------------
(* fetch: the status of the response; a rejection leaves the worker *)

\* faulty variant: the missing row is not tested for and reading it throws
StatusOfMissingRowThrows(r) ==
    CASE r = "ok" -> 200
      [] r = "denied_ip" -> 403
      [] r = "denied_hmac" -> 401
      [] r = "notfound" -> 500
      [] r = "threw" -> 500
      [] r = "store_failed" -> 500

StatusOf(r) ==
    CASE r = "ok" -> 200
      [] r = "denied_ip" -> 403
      [] r = "denied_hmac" -> 401
      [] r = "notfound" -> 404
      [] r = "threw" -> 500
      [] r = "store_failed" -> 500

Respond(p) ==
    /\ pc[p] = "denied"
    /\ pc' = [pc EXCEPT ![p] = "done"]
    /\ creds' = [creds EXCEPT ![p] = NoCreds]
    /\ UNCHANGED <<consultas, recebimentos, rest, txid, row, ret, used, shape, did, applied, since, obs,
                   r2, batch>>

\* faulty variant: the failure undoes what the request had accrued to the txid
StoreFailsRollsBack(p) ==
    /\ pc[p] \in {"receb", "select", "insert", "update", "creset"}
    /\ pc' = [pc EXCEPT ![p] = "done"]
    /\ ret' = [ret EXCEPT ![p] = "store_failed"]
    /\ consultas' = IF rest[p] # <<>> /\ did[p] > 0
                    THEN [k \in DOMAIN consultas |->
                            IF consultas[k].txid = Head(rest[p]).txid
                            THEN [consultas[k] EXCEPT !.valor = 0]
                            ELSE consultas[k]]
                    ELSE consultas
    /\ UNCHANGED <<recebimentos, creds, rest, txid, row, used, shape, did,
                   applied, since, obs, r2, batch>>

\* a D1 statement rejects: the exception leaves the handler and fetch answers 500
StoreFails(p) ==
    /\ pc[p] \in {"receb", "select", "insert", "update", "creset"}
    /\ pc' = [pc EXCEPT ![p] = "done"]
    /\ ret' = [ret EXCEPT ![p] = "store_failed"]
    /\ UNCHANGED <<consultas, recebimentos, creds, rest, txid, row, used, shape, did,
                   applied, since, obs, r2, batch>>

\* the HTTP status a slot has answered with (0: no response yet)
Status(p) == IF pc[p] = "done" THEN StatusOf(ret[p]) ELSE 0

-----------------------------------------------------------------------------
(* Specifications *)

Step(p, sequential) ==
    \/ WebhookReceive(p, sequential)
    \/ WebhookJson(p)
    \/ WebhookReceb(p)
    \/ WebhookSelect(p)
    \/ WebhookInsert(p)
    \/ WebhookUpdate(p)
    \/ ConsumeSelect(p, sequential)
    \/ ConsumeReset(p)
    \/ Respond(p)

\* requests interleave at every await
Next == \E p \in Procs : Step(p, FALSE)
Spec == Init /\ [][Next]_vars

\* requests run to completion one at a time
NextSeq == \E p \in Procs : Step(p, TRUE)
SpecSeq == Init /\ [][NextSeq]_vars

\* one at a time, every webhook request one of the institution with amounts
\* of TIE_ITEMS
StepTie(p) ==
    \/ WebhookReceiveProduction(p)
    \/ ReceiveJson(p, TIE_BODIES, FALSE)
    \/ WebhookReceb(p)
    \/ WebhookSelect(p)
    \/ WebhookInsert(p)
    \/ WebhookUpdate(p)
    \/ ConsumeSelect(p, TRUE)
    \/ ConsumeReset(p)

NextTie == \E p \in Procs : StepTie(p)
SpecTie == Init /\ [][NextTie]_vars

\* requests interleave at every await, every webhook request one of the
\* institution with items of PAIR_ITEMS
StepPair(p) ==
    \/ Arrive(p, FALSE, {Production})
    \/ ReceiveJson(p, PAIR_BODIES, FALSE)
    \/ WebhookReceb(p)
    \/ WebhookSelect(p)
    \/ WebhookInsert(p)
    \/ WebhookUpdate(p)
    \/ ConsumeSelect(p, FALSE)
    \/ ConsumeReset(p)

NextPair == \E p \in Procs : StepPair(p)
SpecPair == Init /\ [][NextPair]_vars

\* one at a time, every webhook request one of the institution, and the
\* array received is kept
StepOrder(p) ==
    \/ WebhookReceiveProduction(p)
    \/ ReceiveJson(p, BODIES, TRUE)
    \/ WebhookReceb(p)
    \/ WebhookSelect(p)
    \/ WebhookInsert(p)
    \/ WebhookUpdate(p)
    \/ ConsumeSelect(p, TRUE)
    \/ ConsumeReset(p)

NextOrder == \E p \in Procs : StepOrder(p)
SpecOrder == Init /\ [][NextOrder]_vars

\* one at a time, every webhook request one of the institution, and any D1
\* statement may fail
StepFail(p) ==
    \/ WebhookReceiveProduction(p)
    \/ WebhookJson(p)
    \/ WebhookReceb(p)
    \/ WebhookSelect(p)
    \/ WebhookInsert(p)
    \/ WebhookUpdate(p)
    \/ ConsumeSelect(p, TRUE)
    \/ ConsumeReset(p)
    \/ StoreFails(p)

NextFail == \E p \in Procs : StepFail(p)
SpecFail == Init /\ [][NextFail]_vars

-----------------------------------------------------------------------------
(* The revision that dispenses units (backup of v0.0.14): receipts are kept
   in cents with a used flag, and GET /consulta-recebimento answers whole
   units of the unused receipts *)

\* price of one unit in cents
ficha == 50

\* DD-MM-YYYY HH:MM of new Date(horario)
DataFormatada(h) ==
    CASE h = "T1" -> "01-04-2025 10:00"
      [] h = "T2" -> "02-04-2025 10:00"
      [] OTHER -> "NaN-NaN-NaN NaN:NaN"

\* the row bound by INSERT INTO recebimentos (eeid, pagador, datahora, txid,
\* chavepix, valor); used is not bound and takes the column's default, 0
UnitRecebRow(i) ==
    [eeid |-> i.eeid, pagador |-> i.pagador, datahora |-> DataFormatada(i.horario),
     txid |-> i.txid, chavepix |-> i.chave, valor |-> RoundedCents(i.valor), used |-> 0]

\* UPDATE consultas SET valor = valor + ?, datahora = ? WHERE txid = ?
AddConsulta(tbl, t, v, h) ==
    [k \in DOMAIN tbl |->
        IF tbl[k].txid = t
        THEN [tbl[k] EXCEPT !.valor = @ + v, !.datahora = h]
        ELSE tbl[k]]

UnusedRows(bag, t) == { r \in BagToSet(bag) : r.txid = t /\ r.used = 0 }

\* SELECT SUM(valor) as total FROM recebimentos WHERE txid = ? AND used = 0:
\* total is null when no row matches
SumUnused(bag, t) ==
    [null |-> UnusedRows(bag, t) = {},
     total |-> Sum([r \in BagToSet(bag) |-> CopiesIn(r, bag) * r.valor], UnusedRows(bag, t))]

\* faulty variant: the statement is prepared but never run
MarkUsedNotRun(bag, t) == bag

\* UPDATE recebimentos SET used = 1 WHERE txid = ? AND used = 0
MarkUsed(bag, t) ==
    LET rows == BagToSet(bag)
        marked(r) == IF r.txid = t /\ r.used = 0 THEN [r EXCEPT !.used = 1] ELSE r
    IN  [n \in { marked(r) : r \in rows } |->
            Sum([r \in rows |-> CopiesIn(r, bag)], { r \in rows : marked(r) = n })]

\* faulty variant: a started unit counts as a whole one
PulsosRoundedUp(total) == (total + ficha - 1) \div ficha

\* Math.floor(totalValue / ficha)
Pulsos(total) == total \div ficha

UnitReceb(p) ==
    /\ pc[p] = "receb"
    /\ LET i == Head(rest[p])
       IN  /\ recebimentos' = recebimentos (+) SetToBag({UnitRecebRow(i)})
           /\ IF WantsConsulta(i)
              THEN /\ pc' = [pc EXCEPT ![p] = "select"]
                   /\ UNCHANGED <<rest, ret>>
              ELSE Continue(p, Tail(rest[p]))
    /\ UNCHANGED <<consultas, creds, txid, row, used, shape, did, applied, since, obs, r2,
                   batch>>

UnitUpdate(p) ==
    /\ pc[p] = "update"
    /\ LET i == Head(rest[p])
       IN  /\ consultas' = AddConsulta(consultas, i.txid, RoundedCents(i.valor),
                                       DataFormatada(i.horario))
           /\ Committed(p, i)
    /\ UNCHANGED <<recebimentos, creds, txid, row, used, shape, obs, r2, batch>>

\* the request arrives; without idmaq it is answered 400, and for a txid
\* without receipts 404
UnitCheck(p, sequential) ==
    /\ CanStart(p, sequential)
    /\ \E t \in TXIDS \cup {Absent} :
        IF ~Truthy(t)
        THEN /\ pc' = [pc EXCEPT ![p] = "done"]
             /\ ret' = [ret EXCEPT ![p] = "noparam"]
             /\ txid' = txid
        ELSE /\ txid' = [txid EXCEPT ![p] = t]
             /\ IF \A r \in BagToSet(recebimentos) : r.txid # t
                THEN /\ pc' = [pc EXCEPT ![p] = "done"]
                     /\ ret' = [ret EXCEPT ![p] = "notfound"]
                ELSE /\ pc' = [pc EXCEPT ![p] = "usum"]
                     /\ ret' = ret
    /\ UNCHANGED <<consultas, recebimentos, creds, rest, row, used, shape, did, applied,
                   since, obs, r2, batch>>

\* history: what the SUM of a consume counted: how many receipts, their
\* total and which they were
Counted(bag, t) ==
    [gen |-> Sum([r \in BagToSet(bag) |-> CopiesIn(r, bag)], UnusedRows(bag, t)),
     valor |-> SumUnused(bag, t).total,
     erased |-> 0,
     pending |-> UnusedRows(bag, t)]

\* faulty variant: the receipts are marked also when no unit is dispensed
UnitSumAlwaysMarks(p) ==
    /\ pc[p] = "usum"
    /\ LET result == SumUnused(recebimentos, txid[p])
       IN  IF result.null \/ result.total = 0
           THEN /\ row' = [row EXCEPT ![p] = 0]
                /\ pc' = [pc EXCEPT ![p] = "done"]
                /\ ret' = [ret EXCEPT ![p] = "ok"]
           ELSE /\ row' = [row EXCEPT ![p] = Pulsos(result.total)]
                /\ pc' = [pc EXCEPT ![p] = "umark"]
                /\ ret' = ret
    /\ obs' = [obs EXCEPT ![p] = Counted(recebimentos, txid[p])]
    /\ UNCHANGED <<consultas, recebimentos, creds, rest, txid, used, shape, did, applied,
                   since, r2, batch>>

\* the SUM runs and the units are computed
UnitSum(p) ==
    /\ pc[p] = "usum"
    /\ LET result == SumUnused(recebimentos, txid[p])
       IN  IF result.null \/ result.total = 0
           THEN /\ row' = [row EXCEPT ![p] = 0]
                /\ pc' = [pc EXCEPT ![p] = "done"]
                /\ ret' = [ret EXCEPT ![p] = "ok"]
           ELSE /\ row' = [row EXCEPT ![p] = Pulsos(result.total)]
                /\ IF Pulsos(result.total) > 0
                   THEN /\ pc' = [pc EXCEPT ![p] = "umark"]
                        /\ ret' = ret
                   ELSE /\ pc' = [pc EXCEPT ![p] = "done"]
                        /\ ret' = [ret EXCEPT ![p] = "ok"]
    /\ obs' = [obs EXCEPT ![p] = Counted(recebimentos, txid[p])]
    /\ UNCHANGED <<consultas, recebimentos, creds, rest, txid, used, shape, did, applied,
                   since, r2, batch>>

UnitMark(p) ==
    /\ pc[p] = "umark"
    /\ recebimentos' = MarkUsed(recebimentos, txid[p])
    /\ pc' = [pc EXCEPT ![p] = "done"]
    /\ ret' = [ret EXCEPT ![p] = "ok"]
    /\ UNCHANGED <<consultas, creds, rest, txid, row, used, shape, did, applied, since, obs,
                   r2, batch>>

StepUnits(p, sequential) ==
    \/ Arrive(p, sequential, {Production})
    \/ WebhookJson(p)
    \/ UnitReceb(p)
    \/ WebhookSelect(p)
    \/ WebhookInsert(p)
    \/ UnitUpdate(p)
    \/ UnitCheck(p, sequential)
    \/ UnitSum(p)
    \/ UnitMark(p)

\* requests of the unit revision run to completion one at a time
NextUnits == \E p \in Procs : StepUnits(p, TRUE)
SpecUnits == Init /\ [][NextUnits]_vars

\* requests of the unit revision interleave at every await
NextUnitsConc == \E p \in Procs : StepUnits(p, FALSE)
SpecUnitsConc == Init /\ [][NextUnitsConc]_vars

\* the same, with payments of COIN_ITEMS
StepCoins(p) ==
    \/ Arrive(p, FALSE, {Production})
    \/ ReceiveJson(p, COIN_BODIES, FALSE)
    \/ UnitReceb(p)
    \/ WebhookSelect(p)
    \/ WebhookInsert(p)
    \/ UnitUpdate(p)
    \/ UnitCheck(p, FALSE)
    \/ UnitSum(p)
    \/ UnitMark(p)

NextCoins == \E p \in Procs : StepCoins(p)
SpecCoins == Init /\ [][NextCoins]_vars

-----------------------------------------------------------------------------
(* The revision that archives to R2 (v0.0.8-alpha): POST /recebimento writes
   each item to the bucket before the ledger, amounts are stored as numbers,
   and the handler catches what its statements throw *)

\* the guard of the R2 write
WantsArchive(i) == Truthy(i.txid) /\ Truthy(i.valor)

\* JSON.stringify({ endToEndId, txid, valor })
Blob(i) == [eeid |-> i.eeid, txid |-> i.txid, valor |-> i.valor]

\* env.MY_R2.put(`bucket-${txid}.json`, ...): the object of the key is replaced
PutBlob(store, i) == [store EXCEPT ![i.txid] = Blob(i)]

\* SQLite ROUND(x, 2) of an amount in thousandths, half away from zero
SqlRound2Milli(x) ==
    IF x >= 0 THEN ((x + 5) \div 10) * 10 ELSE 0 - (((0 - x) + 5) \div 10) * 10

\* UPDATE consultas SET valor = ROUND(valor + ?, 2), datahora = ? WHERE txid = ?
\* with the amount bound as Number(valor)
UpdateConsultaMilli(tbl, t, v, h) ==
    [k \in DOMAIN tbl |->
        IF tbl[k].txid = t
        THEN [tbl[k] EXCEPT !.valor = SqlRound2Milli(@ + v), !.datahora = h]
        ELSE tbl[k]]

\* the synchronous run of processPixItem and of the for loop up to the next
\* awaited statement: ArchLedger after the R2 write of the head item,
\* ArchDispatch from the start of the head item
RECURSIVE ArchDispatch(_)
RECURSIVE ArchLedger(_)
ArchLedger(items) ==
    LET i == Head(items)
    IN  IF Throws(i) THEN [pc |-> "done", rest |-> <<>>, ret |-> "caught"]
        ELSE IF WantsReceb(i) THEN [pc |-> "receb", rest |-> items, ret |-> "none"]
        ELSE IF WantsConsulta(i) THEN [pc |-> "select", rest |-> items, ret |-> "none"]
        ELSE ArchDispatch(Tail(items))

ArchDispatch(items) ==
    IF items = <<>> THEN [pc |-> "done", rest |-> <<>>, ret |-> "ok"]
    ELSE IF WantsArchive(Head(items)) THEN [pc |-> "put", rest |-> items, ret |-> "none"]
    ELSE ArchLedger(items)

ArchContinue(p, d) ==
    /\ pc' = [pc EXCEPT ![p] = d.pc]
    /\ rest' = [rest EXCEPT ![p] = d.rest]
    /\ ret' = [ret EXCEPT ![p] = d.ret]

ArchJson(p) ==
    /\ pc[p] = "json"
    /\ \E b \in BODIES :
        /\ used + Len(b.pix) <= MaxItems
        /\ used' = used + Len(b.pix)
        /\ shape' = [shape EXCEPT ![p] = ShapeOf(b)]
        /\ ArchContinue(p, ArchDispatch(PixItems(b)))
    /\ creds' = [creds EXCEPT ![p] = IF TrustedCreds(@) THEN NoCreds ELSE @]
    /\ UNCHANGED <<consultas, recebimentos, txid, row, did, applied, since, obs, r2, batch>>

\* the R2 write of the head item succeeds
ArchPut(p) ==
    /\ pc[p] = "put"
    /\ r2' = PutBlob(r2, Head(rest[p]))
    /\ ArchContinue(p, ArchLedger(rest[p]))
    /\ UNCHANGED <<consultas, recebimentos, creds, txid, row, used, shape, did, applied,
                   since, obs, batch>>

\* the R2 write of the head item rejects: the exception leaves processPixItem
\* and the loop, and the catch of the handler answers 400
ArchPutFails(p) ==
    /\ pc[p] = "put"
    /\ pc' = [pc EXCEPT ![p] = "done"]
    /\ ret' = [ret EXCEPT ![p] = "put_failed"]
    /\ UNCHANGED <<consultas, recebimentos, creds, rest, txid, row, used, shape, did,
                   applied, since, obs, r2, batch>>

ArchReceb(p) ==
    /\ pc[p] = "receb"
    /\ LET i == Head(rest[p])
       IN  /\ recebimentos' = recebimentos (+) SetToBag({RecebRow(i)})
           /\ IF WantsConsulta(i)
              THEN /\ pc' = [pc EXCEPT ![p] = "select"]
                   /\ UNCHANGED <<rest, ret>>
              ELSE ArchContinue(p, ArchDispatch(Tail(rest[p])))
    /\ UNCHANGED <<consultas, creds, txid, row, used, shape, did, applied, since, obs, r2,
                   batch>>

ArchCommitted(p, i) ==
    /\ did' = [did EXCEPT ![p] = @ + 1]
    /\ applied' = [applied EXCEPT ![i] = @ + 1]
    /\ since' = [since EXCEPT ![i] = @ + 1]
    /\ ArchContinue(p, ArchDispatch(Tail(rest[p])))

ArchInsert(p) ==
    /\ pc[p] = "insert"
    /\ LET i == Head(rest[p])
       IN  /\ consultas' = InsertConsulta(consultas, i.txid, NumberOf(i.valor), 0)
           /\ ArchCommitted(p, i)
    /\ UNCHANGED <<recebimentos, creds, txid, row, used, shape, obs, r2, batch>>

ArchUpdate(p) ==
    /\ pc[p] = "update"
    /\ LET i == Head(rest[p])
       IN  /\ consultas' = UpdateConsultaMilli(consultas, i.txid, NumberOf(i.valor), i.horario)
           /\ ArchCommitted(p, i)
    /\ UNCHANGED <<recebimentos, creds, txid, row, used, shape, obs, r2, batch>>

\* GET /consulta-recebimento: the request arrives and its SELECT valor runs
ArchConsumeSelect(p) ==
    /\ CanStart(p, TRUE)
    /\ \E t \in TXIDS :
        /\ txid' = [txid EXCEPT ![p] = t]
        /\ IF RowsOf(consultas, t) = {}
           THEN /\ pc' = [pc EXCEPT ![p] = "done"]
                /\ ret' = [ret EXCEPT ![p] = "notfound"]
                /\ row' = row
           ELSE /\ pc' = [pc EXCEPT ![p] = "creset"]
                /\ row' = [row EXCEPT ![p] = FirstRow(consultas, t).valor]
                /\ ret' = ret
    /\ UNCHANGED <<consultas, recebimentos, creds, rest, used, shape, did, applied, since,
                   obs, r2, batch>>

StepArchive(p) ==
    \/ Arrive(p, TRUE, {Production})
    \/ ArchJson(p)
    \/ ArchPut(p)
    \/ ArchPutFails(p)
    \/ ArchReceb(p)
    \/ WebhookSelect(p)
    \/ ArchInsert(p)
    \/ ArchUpdate(p)
    \/ ArchConsumeSelect(p)
    \/ ConsumeReset(p)

\* requests of the archiving revision run to completion one at a time, and
\* any R2 write may fail
NextArchive == \E p \in Procs : StepArchive(p)
SpecArchive == Init /\ [][NextArchive]_vars

-----------------------------------------------------------------------------
(* Vocabulary of the properties *)

IsConsume(p) == txid[p] # Absent
ConsumedOk(p) == IsConsume(p) /\ pc[p] = "done" /\ ret[p] = "ok"
NoConsumeYet == \A p \in Procs : ~IsConsume(p)

\* the amounts of the input domain in cents, rounded by hand (half up)
ExpectedCents(v) ==
    CASE v = "1.004" -> 100
      [] v = "2.006" -> 201
      [] v = "-1.004" -> -100
      [] v = "1.005" -> 101
      [] v = "10.005" -> 1001
      [] v = "5.00" -> 500
      [] v = "0.30" -> 30
      [] OTHER -> 0

ItemsOf(t) == { i \in ITEMS : i.txid = t }

\* cents credited to t since its last reset / over the whole run
CreditedSince(t) == Sum([i \in ITEMS |-> since[i] * ExpectedCents(i.valor)], ItemsOf(t))
Credited(t) == Sum([i \in ITEMS |-> applied[i] * ExpectedCents(i.valor)], ItemsOf(t))

\* the balances that the completed consumes of t read
ReadByConsumes(t) ==
    Sum([p \in Procs |-> obs[p].valor], { p \in Procs : ConsumedOk(p) /\ txid[p] = t })

Untrusted(c) == c # NoCreds /\ ~TrustedCreds(c)

-----------------------------------------------------------------------------
(* Properties *)

\* C1: two consume calls on one txid whose SELECTs both run before either
\* reset never both get the same B > 0: when the one that read first returns
\* B > 0 the other returns 0, and when the entry held a balance B > 0 at the
\* first read it held 0 at the other.
C1_ConcurrentConsume ==
    \A q \in Procs : \A p \in obs[q].pending :
        (ConsumedOk(p) /\ ConsumedOk(q) /\ obs[p].gen = obs[q].gen)
            => /\ row[p] > 0 => row[q] = 0
               /\ obs[p].valor > 0 => obs[q].valor = 0

C3_RedeliveryIdempotent ==
    [][\A i \in ITEMS :
          (applied[i] >= 1 /\ applied'[i] > applied[i]) => consultas' = consultas]_vars

\* C4: no credit is lost: whatever was credited to a txid was either in a
\* balance that a completed consume read, or is still in the ledger.
C4_NoCreditLost ==
    \A t \in TXIDS : Credited(t) <= ReadByConsumes(t) + Balance(consultas, t)

\* C5: with requests run one at a time, the balance of every txid is the sum
\* of the amounts, each rounded to cents, accrued since its last reset.
C5_BalanceIsSumSinceConsume ==
    \A t \in TXIDS : Balance(consultas, t) = CreditedSince(t)

C5_Witness ==
    \E p \in Procs : \E i \in ITEMS :
        /\ ConsumedOk(p) /\ obs[p].valor > 0
        /\ i.txid = txid[p] /\ since[i] > 0
        /\ \A q \in Procs : pc[q] \in {"idle", "done"}

\* C6: accruals of one txid, also concurrent first ones, leave one entry
\* that holds the sum of the amounts (no consume involved).
C6_AtomicUpsert ==
    NoConsumeYet =>
        \A t \in TXIDS :
            \/ RowsOf(consultas, t) = {} /\ Credited(t) = 0
            \/ Cardinality(RowsOf(consultas, t)) = 1
                  /\ FirstRow(consultas, t).valor = Credited(t)

\* C7: accruals with distinct endToEndIds on one txid, applied one after
\* the other in any order, leave the sum of the rounded amounts.
C7_AccrualCommutes ==
    \A t \in TXIDS :
        (NoConsumeYet /\ \A i \in ItemsOf(t) : applied[i] <= 1)
            => Balance(consultas, t)
                  = Sum([i \in ITEMS |-> ExpectedCents(i.valor)],
                        { i \in ItemsOf(t) : applied[i] = 1 })

C7_Witness ==
    /\ NoConsumeYet
    /\ Cardinality({ i \in ITEMS : applied[i] = 1 }) = 2
    /\ \A i \in ITEMS : applied[i] <= 1
    /\ \A q \in Procs : pc[q] \in {"idle", "done"}

\* C8: a request passes the authenticator exactly when its address and its
\* token, after the test-mode override, are the configured ones; a wrong
\* address is answered 403, a right address with a wrong or missing token 401.
C8_Authenticator ==
    \A p \in Procs :
        creds[p] # NoCreds =>
            LET c == creds[p]
                address == IF c.hide = TEST_PASS THEN EFI_IP ELSE c.ip
                token == IF c.hide = TEST_PASS THEN HMAC ELSE c.hmac
            IN  /\ (pc[p] # "denied") <=> (address = EFI_IP /\ token = HMAC)
                /\ address # EFI_IP => (pc[p] = "denied" /\ StatusOf(ret[p]) = 403)
                /\ (address = EFI_IP /\ token # HMAC)
                      => (pc[p] = "denied" /\ StatusOf(ret[p]) = 401)

C8_Witness ==
    \E p \in Procs :
        /\ pc[p] = "denied" /\ StatusOf(ret[p]) = 401
        /\ creds[p].ip = EFI_IP /\ creds[p].hmac = Absent /\ creds[p].hide # TEST_PASS

\* C9: a request carrying the test password is authenticated whatever its
\* own address and token; any other request is judged on its own address and token.
C9_TestOverride ==
    \A p \in Procs :
        creds[p] # NoCreds =>
            LET c == creds[p]
            IN  /\ c.hide = TEST_PASS => pc[p] # "denied"
                /\ c.hide # TEST_PASS
                      => ((pc[p] # "denied") <=> (c.ip = EFI_IP /\ c.hmac = HMAC))

C9_Witness ==
    \E p \in Procs :
        /\ pc[p] = "json"
        /\ creds[p].hide = TEST_PASS /\ creds[p].ip # EFI_IP /\ creds[p].hmac # HMAC

\* C10: no step of a request whose address or token is wrong changes the
\* tables consultas and recebimentos.
C10_RejectedLeavesStore ==
    [][\A p \in Procs :
          (pc'[p] # pc[p] /\ (Untrusted(creds[p]) \/ Untrusted(creds'[p])))
              => (consultas' = consultas /\ recebimentos' = recebimentos)]_vars

C10_Witness ==
    \E p \in Procs :
        /\ pc[p] = "done" /\ ret[p] \in {"denied_ip", "denied_hmac"}
        /\ consultas # <<>> /\ recebimentos # EmptyBag

-----------------------------------------------------------------------------
(* Properties of batch processing *)

\* an authenticated webhook request whose body has been read
IsWebhook(p) == shape[p] # NoShape
Ended(p) == IsWebhook(p) /\ pc[p] = "done"

\* C11: only an item with every required field and a positive amount changes
\* the store: any other item is never accrued and leaves no receipt.
C11_OnlyFullItemsApplied ==
    \A i \in ITEMS :
        ~FullItem(i) => (applied[i] = 0 /\ ~BagIn(RecebRow(i), recebimentos))

\* C12: a batch in which one item lacks its amount and the others are well
\* formed ends with the success acknowledgment and with every other item
\* accrued once.
C12_MissingAmountTolerated ==
    \A p \in Procs :
        (Ended(p) /\ shape[p].kind = "amount")
            => (ret[p] = "ok" /\ StatusOf(ret[p]) = 200 /\ did[p] = shape[p].good)

C12_Witness ==
    \E p \in Procs :
        /\ Ended(p) /\ shape[p].kind = "amount" /\ shape[p].good = 1
        /\ did[p] = 1 /\ \E i \in ITEMS : applied[i] = 1

\* C13: an item with a missing field is skipped and the rest of the batch is
\* still processed: when a batch has ended, every well-formed item of it has
\* been accrued.
C13_BadItemSkipped ==
    \A p \in Procs : Ended(p) => did[p] >= shape[p].good

\* C14: every authenticated webhook request is answered 200, whatever its
\* batch holds.
C14_AuthenticatedAnswers200 ==
    \A p \in Procs : Ended(p) => StatusOf(ret[p]) = 200

\* a webhook request that ended before its batch was through
Stopped(p) == Ended(p) /\ ret[p] \in {"threw", "store_failed"}

\* C15: a D1 failure while item k is applied touches item k only: the items
\* after k are still applied, and the request is not answered as failed when
\* other items of its batch were applied.
C15_StoreFailureIsolated ==
    \A p \in Procs :
        (Ended(p) /\ ret[p] = "store_failed")
            => /\ did[p] >= shape[p].good - 1
               /\ did[p] > 0 => StatusOf(ret[p]) = 200

\* C16: when a batch stops at an item, what the request had committed
\* before stays committed: every balance is still the sum of the accruals
\* committed since the last reset of its txid.
C16_CommittedStay ==
    \A p \in Procs :
        (Stopped(p) /\ did[p] > 0)
            => \A t \in TXIDS : Balance(consultas, t) = CreditedSince(t)

C16_Witness ==
    \E p \in Procs :
        /\ Stopped(p) /\ ret[p] = "store_failed" /\ did[p] = 1 /\ shape[p].good = 2
        /\ Balance(consultas, "tx1") > 0

\* C17: a body without an array in pix is an empty batch: the request ends
\* at once with the success acknowledgment and the tables are not changed.
C17_NoArrayIsEmptyBatch ==
    [][\A p \in Procs :
          (pc[p] = "json" /\ pc'[p] # "json" /\ shape'[p].kind = "noarray")
              => /\ pc'[p] = "done" /\ StatusOf(ret'[p]) = 200
                 /\ consultas' = consultas /\ recebimentos' = recebimentos]_vars

C17_Witness ==
    \E p \in Procs :
        /\ Ended(p) /\ shape[p].kind = "noarray" /\ ret[p] = "ok"
        /\ consultas # <<>>

\* C18: a consume of a txid without an entry is answered 404 and changes no
\* entry and creates none; a consume of a txid with an entry is not answered
\* 404.
C18_ConsumeNotFound ==
    [][\A p \in Procs :
          (pc[p] = "idle" /\ txid'[p] # Absent)
              => IF RowsOf(consultas, txid'[p]) = {}
                 THEN /\ pc'[p] = "done" /\ StatusOf(ret'[p]) = 404
                      /\ consultas' = consultas
                 ELSE ret'[p] # "notfound"]_vars

C18_Witness ==
    \E p \in Procs :
        /\ IsConsume(p) /\ pc[p] = "done" /\ ret[p] = "notfound"
        /\ consultas # <<>>

\* C19: a successful consume returns the balance its entry held when the
\* consume read it.
C19_ReturnsBalance ==
    \A p \in Procs : ConsumedOk(p) => row[p] = obs[p].valor

\* C20: an entry is never deleted: a txid that has an entry keeps one, and a
\* consume is answered 404 only for a txid that was never accrued to.
C20_EntryNeverDeleted ==
    [][/\ \A t \in TXIDS : RowsOf(consultas, t) # {} => RowsOf(consultas', t) # {}
       /\ \A p \in Procs :
            (ret'[p] = "notfound" /\ ret[p] # "notfound") => AppliedTo(txid'[p]) = 0]_vars

C20_Witness ==
    \E p, q \in Procs :
        /\ p < q /\ ConsumedOk(p) /\ ConsumedOk(q) /\ txid[p] = txid[q]

-----------------------------------------------------------------------------
(* Properties of the ledger entry *)

\* no accrual was committed to t since its last reset
NoAccrualSince(t) == \A i \in ItemsOf(t) : since[i] = 0

\* C21: the ledger holds at most one entry per txid in every reachable
\* state, also after concurrent first accruals of one txid.
C21_OneEntryPerTxid ==
    \A t \in TXIDS : Cardinality(RowsOf(consultas, t)) <= 1

\* C22: the accrued amount of every txid is never negative, whatever the
\* amounts of the items in the batches.
C22_BalanceNeverNegative ==
    \A t \in TXIDS : \A k \in RowsOf(consultas, t) : consultas[k].valor >= 0

\* C27: when a successful consume has returned, the reset is committed: the
\* balance of its txid is 0 and stays 0 until the next accrual to that txid.
C27_ResetCommittedOnReturn ==
    \A p \in Procs :
        (ConsumedOk(p) /\ NoAccrualSince(txid[p])) => Balance(consultas, txid[p]) = 0

C27_Witness ==
    \E p, q \in Procs :
        /\ p < q /\ ConsumedOk(p) /\ obs[p].valor > 0 /\ NoAccrualSince(txid[p])
        /\ Ended(q) /\ ret[q] = "ok"
        /\ Balance(consultas, txid[p]) = 0

\* C28: a successful consume updates datahora of the entry it resets.
C28_ConsumeStampsEntry ==
    [][\A p \in Procs :
          (pc[p] = "creset" /\ pc'[p] = "done" /\ ret'[p] = "ok")
              => \A k \in RowsOf(consultas, txid[p]) :
                    consultas'[k].datahora # consultas[k].datahora]_vars

\* C29: an accrual to an entry that exists sets datahora of that entry to
\* the horario of the item, in the statement that adds the amount.
C29_AccrualStampsEntry ==
    [][\A p \in Procs :
          (pc[p] = "update" /\ pc'[p] # "update")
              => LET i == Head(rest[p])
                 IN  \A k \in RowsOf(consultas, i.txid) :
                        /\ consultas'[k].datahora = i.horario
                        /\ consultas'[k].valor = consultas[k].valor + ExpectedCents(i.valor)]_vars

C29_Witness ==
    \E k \in DOMAIN consultas :
        /\ consultas[k].datahora = "T2" /\ consultas[k].valor = 301

-----------------------------------------------------------------------------
(* Properties of the revision that dispenses units *)

\* the receipts of the input domain in cents, by hand
CentsOfReceipt(r) ==
    CASE r.eeid = "E1" -> 100
      [] r.eeid = "E2" -> 201
      [] r.eeid = "E6" -> -100
      [] r.eeid = "E11" -> 30
      [] r.eeid = "E12" -> 30
      [] OTHER -> 0

\* cents of the receipts of t that are not marked used
UnconsumedCents(bag, t) ==
    Sum([r \in BagToSet(bag) |-> CopiesIn(r, bag) * CentsOfReceipt(r)],
        { r \in BagToSet(bag) : r.txid = t /\ r.used = 0 })

\* cents of the receipts of t with a positive amount, used or not
ReceivedCents(bag, t) ==
    Sum([r \in BagToSet(bag) |-> CopiesIn(r, bag) * CentsOfReceipt(r)],
        { r \in BagToSet(bag) : r.txid = t /\ CentsOfReceipt(r) > 0 })

\* units that the completed consumes of t have answered
UnitsDispensed(t) ==
    Sum(row, { p \in Procs : ConsumedOk(p) /\ txid[p] = t /\ row[p] > 0 })

\* C23: a consume that returns units > 0 leaves the remainder, the unconsumed
\* amount minus units times the unit price, available to the next consume.
C23_RemainderKept ==
    [][\A p \in Procs :
          (pc[p] = "umark" /\ pc'[p] = "done")
              => UnconsumedCents(recebimentos', txid[p])
                    = UnconsumedCents(recebimentos, txid[p]) - row[p] * ficha]_vars

\* C24: no unit is dispensed twice, also by concurrent consumes: the units
\* answered for a txid never cost more than what was received for it.
C24_NoUnitTwice ==
    \A t \in TXIDS : UnitsDispensed(t) * ficha <= ReceivedCents(recebimentos, t)

\* C30: a consume answers floor(U / unit price) where U is the sum of the
\* receipts of the txid not marked used; it marks receipts used only when
\* that is more than 0, and then all the unused ones of the txid; with no
\* unconsumed credit it answers 0 and changes nothing.
C30_UnitsAreFloor ==
    [][\A p \in Procs :
          /\ (pc[p] = "usum" /\ pc'[p] # "usum")
                => LET U == UnconsumedCents(recebimentos, txid[p])
                   IN  /\ row'[p] * ficha <= U /\ U < (row'[p] + 1) * ficha
                       /\ recebimentos' = recebimentos
                       /\ (pc'[p] = "umark") <=> (row'[p] > 0)
                       /\ (pc'[p] # "umark") => (pc'[p] = "done" /\ ret'[p] = "ok")
          /\ (pc[p] = "umark" /\ pc'[p] # "umark")
                => /\ row[p] > 0 /\ ret'[p] = "ok"
                   /\ UnusedRows(recebimentos', txid[p]) = {}
                   /\ \A t \in TXIDS \ {txid[p]} :
                        UnconsumedCents(recebimentos', t) = UnconsumedCents(recebimentos, t)]_vars

C30_Witness ==
    \E p, q \in Procs :
        /\ p < q /\ txid[p] = txid[q]
        /\ ConsumedOk(p) /\ row[p] = 4
        /\ ConsumedOk(q) /\ row[q] = 0

-----------------------------------------------------------------------------
(* Properties of the revision that archives to R2 *)

\* C25: archival is best effort: when the R2 write of an item fails, the
\* request goes on with the ledger writes of that item, and with the items
\* after it.
C25_ArchiveBestEffort ==
    [][\A p \in Procs :
          (pc[p] = "put" /\ ret'[p] = "put_failed" /\ ~Throws(Head(rest[p])))
              => /\ pc'[p] \in {"receb", "select"}
                 /\ rest'[p] = rest[p]]_vars

\* C26: the object archived for a record is written once: no later record
\* or delivery replaces its content, also when records share a txid.
C26_ArchiveWriteOnce ==
    [][\A t \in TXIDS : r2[t] # NoBlob => r2'[t] = r2[t]]_vars

-----------------------------------------------------------------------------
(* Further properties of the ledger *)

\* C31: every accrual, the first insert as well as an update, adds the
\* amount rounded to cents with a half rounded up: the balance of a txid is
\* the sum of the amounts so rounded since its last reset (10.005 and then
\* 5.00 leave 15.01).
C31_HalfUpAtEachAccrual ==
    \A t \in TXIDS :
        Balance(consultas, t)
            = Sum([i \in TIE_ITEMS |-> since[i] * ExpectedCents(i.valor)],
                  { i \in TIE_ITEMS : i.txid = t })

\* the txid that the statement a slot is waiting on writes to
Target(p) ==
    IF pc[p] = "creset" THEN txid[p]
    ELSE IF pc[p] \in {"insert", "update"} THEN Head(rest[p]).txid
    ELSE Absent

\* the entries of t, in order
EntriesOf(tbl, t) == SelectSeq(tbl, LAMBDA r : r.txid = t)

\* C32: an accrual to t or a consume of t leaves the entries of every other
\* txid as they are, amount and datahora, in any interleaving.
C32_OtherTxidsUntouched ==
    [][\A p \in Procs :
          pc'[p] # pc[p]
              => \A t \in TXIDS \ {Target(p)} :
                    EntriesOf(consultas', t) = EntriesOf(consultas, t)]_vars

C32_Witness ==
    \E p \in Procs :
        /\ ConsumedOk(p) /\ txid[p] = "tx1" /\ obs[p].valor > 0
        /\ Balance(consultas, "tx1") = 0
        /\ Balance(consultas, "tx2") > 0

\* s is what is left of b after its first items
IsSuffix(s, b) ==
    /\ Len(s) <= Len(b)
    /\ \A k \in 1..Len(s) : s[k] = b[Len(b) - Len(s) + k]

\* the slot is between two statements of processPixItem
InItem(p) == pc[p] \in {"receb", "select", "insert", "update"}

\* C33: the items of a batch are applied in input order, one at a time: the
\* items still to do are always the rest of the array as received, every
\* write is a write of the first of them, and the ledger write of an item
\* follows its receipt before the next item is begun.
C33_ItemsInInputOrder ==
    [][\A p \in Procs :
          /\ IsSuffix(rest'[p], batch'[p])
          /\ InItem(p) => IsSuffix(rest'[p], rest[p])
          /\ (InItem(p) /\ pc'[p] # pc[p])
                => LET i == Head(rest[p])
                   IN  /\ recebimentos' # recebimentos
                          => recebimentos' = recebimentos (+) SetToBag({RecebRow(i)})
                       /\ \A t \in TXIDS \ {i.txid} :
                             EntriesOf(consultas', t) = EntriesOf(consultas, t)
                       /\ (pc[p] = "receb" /\ WantsConsulta(i))
                             => (pc'[p] = "select" /\ rest'[p] = rest[p])
                       /\ pc[p] = "select"
                             => (pc'[p] \in {"insert", "update"} /\ rest'[p] = rest[p])]_vars

C33_Witness ==
    \E p \in Procs :
        /\ Ended(p) /\ did[p] = 2
        /\ Len(batch[p]) = 2 /\ batch[p][1].eeid = "E1" /\ batch[p][2].eeid = "E2"
        /\ FirstRow(consultas, "tx1").datahora = "T2"

\* C34: the address is checked before the token: a request with a wrong
\* address and a wrong or missing token is answered 403, never 401, and the
\* body of a rejected request is not read.
C34_AddressBeforeToken ==
    \A p \in Procs :
        /\ (creds[p] # NoCreds /\ creds[p].hide # TEST_PASS
              /\ creds[p].ip # EFI_IP /\ creds[p].hmac # HMAC)
                => (pc[p] = "denied" /\ ret[p] = "denied_ip" /\ StatusOf(ret[p]) = 403)
        /\ ret[p] \in {"denied_ip", "denied_hmac"}
                => (~IsWebhook(p) /\ rest[p] = <<>> /\ pc[p] \in {"denied", "done"})

C34_Witness ==
    \E p, q \in Procs :
        /\ pc[p] = "denied" /\ ret[p] = "denied_ip"
        /\ creds[p].ip # EFI_IP /\ creds[p].hmac = "bad-token" /\ creds[p].hide = Absent
        /\ pc[q] = "done" /\ ret[q] = "denied_hmac"

\* no request is between two statements
Quiescent == \A p \in Procs : pc[p] \in {"idle", "done", "denied"}

\* C37: every amount added to a balance is backed by a receipt of the same
\* item: an item was never accrued more often than it has receipts carrying
\* its endToEndId, and once the requests have ended every receipt written
\* has had its amount accrued.
C37_AccrualsBackedByReceipts ==
    \A i \in ITEMS :
        /\ applied[i] <= CopiesIn(RecebRow(i), recebimentos)
        /\ Quiescent => CopiesIn(RecebRow(i), recebimentos) <= applied[i]

-----------------------------------------------------------------------------
(* Further properties of the revision that dispenses units *)

\* C35: a consume whose unconsumed total is below the price of a unit
\* answers 0 and marks no receipt, so credit below a unit accumulates: once
\* the unconsumed total reaches the price, the next consume answers at
\* least 1.
C35_SubUnitCreditAccumulates ==
    [][\A p \in Procs :
          /\ (pc[p] = "usum" /\ pc'[p] # "usum")
                => LET U == UnconsumedCents(recebimentos, txid[p])
                   IN  /\ U < ficha
                            => /\ pc'[p] = "done" /\ ret'[p] = "ok" /\ row'[p] <= 0
                               /\ recebimentos' = recebimentos
                       /\ U >= ficha => row'[p] >= 1
          /\ (pc'[p] # pc[p] /\ IsConsume(p) /\ row[p] <= 0 /\ pc[p] # "usum")
                => recebimentos' = recebimentos]_vars

C35_Witness ==
    \E p, q \in Procs :
        /\ ConsumedOk(q) /\ row[q] = 0 /\ obs[q].valor = 30
        /\ pc[p] = "umark" /\ row[p] = 1 /\ obs[p].valor = 60
        /\ txid[p] = txid[q]

\* C36: every receipt that a consume marks used was in the total from which
\* it computed its units: a receipt inserted between its SUM and its UPDATE
\* is not marked.
C36_MarkedWereCounted ==
    [][\A p \in Procs :
          (pc[p] = "umark" /\ pc'[p] # "umark")
              => /\ UnusedRows(recebimentos, txid[p]) \subseteq obs[p].pending
                 /\ Sum([r \in BagToSet(recebimentos) |-> CopiesIn(r, recebimentos)],
                        UnusedRows(recebimentos, txid[p])) <= obs[p].gen]_vars

\* receipts of t that are marked used
UsedCopies(bag, t) ==
    Sum([r \in BagToSet(bag) |-> CopiesIn(r, bag)],
        { r \in BagToSet(bag) : r.txid = t /\ r.used = 1 })

\* receipts that the consumes of t which answered units > 0 had in their totals
CountedByDispensing(t) ==
    Sum([p \in Procs |-> obs[p].gen],
        { p \in Procs : ConsumedOk(p) /\ txid[p] = t /\ row[p] > 0 })

\* C38: the used mark of a receipt is permanent, so with consumes run one at
\* a time a receipt is in the total of at most one consume that answers
\* units > 0: those consumes counted, together, no more receipts than are
\* marked used.
C38_MarkIsPermanent ==
    [][/\ \A r \in BagToSet(recebimentos) :
            r.used = 1 => CopiesIn(r, recebimentos') >= CopiesIn(r, recebimentos)
       /\ \A t \in TXIDS :
            /\ UsedCopies(recebimentos', t) >= UsedCopies(recebimentos, t)
            /\ CountedByDispensing(t)' <= UsedCopies(recebimentos', t)]_vars

C38_Witness ==
    \E p, q \in Procs :
        /\ p < q /\ txid[p] = txid[q]
        /\ ConsumedOk(p) /\ row[p] > 0 /\ obs[p].gen > 0
        /\ ConsumedOk(q) /\ obs[q].gen = 0
        /\ UsedCopies(recebimentos, txid[p]) = obs[p].gen

====
